---- MODULE Spec2Model ----
(***************************************************************************)
(* A model of the usdc-bridge scripts: scripts/balance.py, scripts/send.py *)
(* and scripts/bridge.py.  Each script is a sequential program; the model  *)
(* follows one invocation of one entry point (a script's main, or one of   *)
(* its functions called directly) step by step.  Everything outside the    *)
(* process (the blockchain nodes, the attestation service, the environment *)
(* variables, the user's input) is a nondeterministic choice.              *)
(***************************************************************************)
EXTENDS Integers, Sequences, FiniteSets, TLC

(***************************************************************************)
(* Bounds of the model.                                                    *)
(***************************************************************************)
\* get_attestation called directly: max_attempts ranges over 0..MaxAttemptsBound
MaxAttemptsBound == 4

(***************************************************************************)
(* Python's None, and the lookup tables of the three scripts.  A table is  *)
(* a function on its keys; Get(table, key) is dict.get(key).  What          *)
(* dict.get and os.getenv answer is either None or an object: None is a    *)
(* value of its own type, equal to no string (the str 'None' is            *)
(* Object("None")), and Object(v) is the object v.                         *)
(***************************************************************************)
None == [type |-> "NoneType"]
Object(v) == [type |-> "object", value |-> v]

Get(table, key) == IF key \in DOMAIN table THEN Object(table[key]) ELSE None

\* bridge.py
TOKEN_MESSENGER ==
  [k \in {"ethereum", "ethereum_sepolia", "base", "base_sepolia", "polygon",
          "arbitrum", "arbitrum_sepolia"} |->
     CASE k = "ethereum"         -> "0xBd3fa81B58Ba92a82136038B25aDec7066af3155"
       [] k = "ethereum_sepolia" -> "0x9f3B8679c73C2Fef8b59B4f3444d4e156fb70AA5"
       [] k = "base"             -> "0x1682Ae6375C4E4A97e4B583BC394c861A46D8962"
       [] k = "base_sepolia"     -> "0x9f3B8679c73C2Fef8b59B4f3444d4e156fb70AA5"
       [] k = "polygon"          -> "0x9daF8c91AEFAE50b9c0E69629D3F6Ca40cA3B3FE"
       [] k = "arbitrum"         -> "0x19330d10D9Cc8751218eaf51E8885D058642E08A"
       [] k = "arbitrum_sepolia" -> "0x9f3B8679c73C2Fef8b59B4f3444d4e156fb70AA5"]

MESSAGE_TRANSMITTER ==
  [k \in {"ethereum", "ethereum_sepolia", "base", "base_sepolia", "polygon",
          "arbitrum", "arbitrum_sepolia"} |->
     CASE k = "ethereum"         -> "0x0a992d191DEeC32aFe36203Ad87D7d289a738F81"
       [] k = "ethereum_sepolia" -> "0x7865fAfC2db2093669d92c0F33AeEF291086BEFD"
       [] k = "base"             -> "0xAD09780d193884d503182aD4588450C416D6F9D4"
       [] k = "base_sepolia"     -> "0x7865fAfC2db2093669d92c0F33AeEF291086BEFD"
       [] k = "polygon"          -> "0xF3be9355363857F3e001be68856A2f96b4C39Ba9"
       [] k = "arbitrum"         -> "0xC30362313FBBA5cf9163F0bb16a0e01f01A896ca"
       [] k = "arbitrum_sepolia" -> "0x7865fAfC2db2093669d92c0F33AeEF291086BEFD"]

DOMAIN_IDS ==
  [k \in {"ethereum", "ethereum_sepolia", "avalanche", "optimism", "arbitrum",
          "arbitrum_sepolia", "base", "base_sepolia", "polygon"} |->
     CASE k = "ethereum"         -> 0
       [] k = "ethereum_sepolia" -> 0
       [] k = "avalanche"        -> 1
       [] k = "optimism"         -> 2
       [] k = "arbitrum"         -> 3
       [] k = "arbitrum_sepolia" -> 3
       [] k = "base"             -> 6
       [] k = "base_sepolia"     -> 6
       [] k = "polygon"          -> 7]

BRIDGE_USDC_ADDRESSES ==
  [k \in {"ethereum", "ethereum_sepolia", "base", "base_sepolia", "polygon",
          "arbitrum", "arbitrum_sepolia"} |->
     CASE k = "ethereum"         -> "0xA0b86991c6218b36c1d19D4a2e9Eb0cE3606eB48"
       [] k = "ethereum_sepolia" -> "0x1c7D4B196Cb0C7B01d743Fbc6116a902379C7238"
       [] k = "base"             -> "0x833589fCD6eDb6E08f4c7C32D4f71b54bdA02913"
       [] k = "base_sepolia"     -> "0x036CbD53842c5426634e7929541eC2318f3dCF7e"
       [] k = "polygon"          -> "0x3c499c542cEF5E3811e1192ce70d8cC03d5c3359"
       [] k = "arbitrum"         -> "0xaf88d065e77c8cC2239327C5EDb3A432268e5831"
       [] k = "arbitrum_sepolia" -> "0x75faf114eafb1BDbe2F0316DF893fd58CE46AA4d"]

BRIDGE_DEFAULT_RPCS ==
  [k \in {"ethereum", "ethereum_sepolia", "base", "base_sepolia", "polygon",
          "arbitrum", "arbitrum_sepolia"} |->
     CASE k = "ethereum"         -> "https://eth.llamarpc.com"
       [] k = "ethereum_sepolia" -> "https://ethereum-sepolia-rpc.publicnode.com"
       [] k = "base"             -> "https://base.llamarpc.com"
       [] k = "base_sepolia"     -> "https://base-sepolia-rpc.publicnode.com"
       [] k = "polygon"          -> "https://polygon.llamarpc.com"
       [] k = "arbitrum"         -> "https://arbitrum.llamarpc.com"
       [] k = "arbitrum_sepolia" -> "https://arbitrum-sepolia-rpc.publicnode.com"]

ATTESTATION_API ==
  [k \in {"mainnet", "testnet"} |->
     IF k = "mainnet" THEN "https://iris-api.circle.com/attestations"
                      ELSE "https://iris-api-sandbox.circle.com/attestations"]

\* balance.py and send.py hold the same two tables, entry for entry
USDC_ADDRESSES ==
  [k \in {"ethereum", "ethereum_sepolia", "base", "base_sepolia", "polygon",
          "polygon_mumbai", "arbitrum", "arbitrum_sepolia"} |->
     CASE k = "ethereum"         -> "0xA0b86991c6218b36c1d19D4a2e9Eb0cE3606eB48"
       [] k = "ethereum_sepolia" -> "0x1c7D4B196Cb0C7B01d743Fbc6116a902379C7238"
       [] k = "base"             -> "0x833589fCD6eDb6E08f4c7C32D4f71b54bdA02913"
       [] k = "base_sepolia"     -> "0x036CbD53842c5426634e7929541eC2318f3dCF7e"
       [] k = "polygon"          -> "0x3c499c542cEF5E3811e1192ce70d8cC03d5c3359"
       [] k = "polygon_mumbai"   -> "0x9999f7Fea5938fD3b1E26A12c3f2fb024e194f97"
       [] k = "arbitrum"         -> "0xaf88d065e77c8cC2239327C5EDb3A432268e5831"
       [] k = "arbitrum_sepolia" -> "0x75faf114eafb1BDbe2F0316DF893fd58CE46AA4d"]

DEFAULT_RPCS ==
  [k \in {"ethereum", "ethereum_sepolia", "base", "base_sepolia", "polygon",
          "polygon_mumbai", "arbitrum", "arbitrum_sepolia"} |->
     CASE k = "ethereum"         -> "https://eth.llamarpc.com"
       [] k = "ethereum_sepolia" -> "https://ethereum-sepolia-rpc.publicnode.com"
       [] k = "base"             -> "https://base.llamarpc.com"
       [] k = "base_sepolia"     -> "https://base-sepolia-rpc.publicnode.com"
       [] k = "polygon"          -> "https://polygon.llamarpc.com"
       [] k = "polygon_mumbai"   -> "https://polygon-mumbai-bor-rpc.publicnode.com"
       [] k = "arbitrum"         -> "https://arbitrum.llamarpc.com"
       [] k = "arbitrum_sepolia" -> "https://arbitrum-sepolia-rpc.publicnode.com"]

(***************************************************************************)
(* get_chain_key, one per script.  testnet_map.get(chain, chain) falls     *)
(* back to the chain name itself.                                          *)
(***************************************************************************)
balance_testnet_map ==
  [c \in {"ethereum", "base", "polygon", "arbitrum"} |->
     CASE c = "ethereum" -> "ethereum_sepolia"
       [] c = "base"     -> "base_sepolia"
       [] c = "polygon"  -> "polygon_mumbai"
       [] c = "arbitrum" -> "arbitrum_sepolia"]

send_testnet_map ==
  [c \in {"ethereum", "base", "polygon", "arbitrum"} |->
     CASE c = "ethereum" -> "ethereum_sepolia"
       [] c = "base"     -> "base_sepolia"
       [] c = "polygon"  -> "polygon_mumbai"
       [] c = "arbitrum" -> "arbitrum_sepolia"]

bridge_testnet_map ==
  [c \in {"ethereum", "base", "arbitrum"} |->
     CASE c = "ethereum" -> "ethereum_sepolia"
       [] c = "base"     -> "base_sepolia"
       [] c = "arbitrum" -> "arbitrum_sepolia"]

balance_get_chain_key(chain, testnet) ==
  IF testnet
    THEN IF chain \in DOMAIN balance_testnet_map THEN balance_testnet_map[chain] ELSE chain
    ELSE chain

send_get_chain_key(chain, testnet) ==
  IF testnet
    THEN IF chain \in DOMAIN send_testnet_map THEN send_testnet_map[chain] ELSE chain
    ELSE chain

bridge_get_chain_key(chain, testnet) ==
  IF testnet
    THEN IF chain \in DOMAIN bridge_testnet_map THEN bridge_testnet_map[chain] ELSE chain
    ELSE chain

(***************************************************************************)
(* Python floats.  argparse's type=float parses the amount string to the   *)
(* nearest IEEE-754 binary64 (round half to even); amount * (10 **         *)
(* decimals) is one binary64 multiplication, rounded the same way; int()   *)
(* truncates toward zero.  A float is [m, e]: m its 53 significand bits,   *)
(* most significant first, and the value is m * 2^e; zero is [<<>>, 0].    *)
(* Numbers wider than a machine word are handled in limbs of LimbBits      *)
(* bits, so that no intermediate value leaves the 32-bit integers.         *)
(***************************************************************************)
MantissaBits == 53
LimbBits == 7
IntWidth == 31      \* integer parts and raw amounts are below 2^31
FracLimbs == 12     \* limbs of the binary fraction that ParseFloat expands

RECURSIVE Pow(_, _)
Pow(pb, pk) == IF pk = 0 THEN 1 ELSE pb * Pow(pb, pk - 1)

LimbBase == Pow(2, LimbBits)

\* bit number pos of v, bit 0 the least significant
BitOf(v, pos) == (v \div Pow(2, pos)) % 2

\* the number whose binary digits are the first vj of vbits
RECURSIVE BitsVal(_, _)
BitsVal(vbits, vj) == IF vj = 0 THEN 0 ELSE 2 * BitsVal(vbits, vj - 1) + vbits[vj]

\* ibits + 1
Increment(ibits) ==
  IF \A q \in 1..Len(ibits) : ibits[q] = 1
    THEN <<1>> \o [q \in 1..Len(ibits) |-> 0]
    ELSE LET z == CHOOSE q \in 1..Len(ibits) :
                    ibits[q] = 0 /\ \A q2 \in (q + 1)..Len(ibits) : ibits[q2] = 1
         IN [q \in 1..Len(ibits) |->
               IF q < z THEN ibits[q] ELSE IF q = z THEN 1 ELSE 0]

\* Round the exact value (rbits * 2^re, plus a positive rest below the last bit
\* when sticky) to MantissaBits bits, ties to even.  rbits starts with a 1.
RoundNearestEven(rbits, re, sticky) ==
  IF Len(rbits) <= MantissaBits
    THEN [m |-> rbits \o [q \in 1..(MantissaBits - Len(rbits)) |-> 0],
          e |-> re - (MantissaBits - Len(rbits))]
    ELSE LET top  == SubSeq(rbits, 1, MantissaBits)
             rnd  == rbits[MantissaBits + 1]
             rest == sticky \/ \E q \in (MantissaBits + 2)..Len(rbits) : rbits[q] = 1
             e2   == re + (Len(rbits) - MantissaBits)
             up   == rnd = 1 /\ (rest \/ top[MantissaBits] = 1)
             inc  == Increment(top)
         IN IF ~up THEN [m |-> top, e |-> e2]
            ELSE IF Len(inc) > MantissaBits
              THEN [m |-> SubSeq(inc, 1, MantissaBits), e |-> e2 + 1]
              ELSE [m |-> inc, e |-> e2]

\* wbits (any bits, most significant first, standing for wbits * 2^we) without
\* its leading zeros, rounded
Normalize(wbits, we, sticky) ==
  LET first == CHOOSE q \in 1..Len(wbits) :
                 wbits[q] = 1 /\ \A q2 \in 1..(q - 1) : wbits[q2] = 0
  IN RoundNearestEven(SubSeq(wbits, first, Len(wbits)), we, sticky)

\* long division of dr / dden, dr < dden: the remainder after dk limbs
RECURSIVE DivRem(_, _, _)
DivRem(dr, dden, dk) ==
  IF dk = 0 THEN dr ELSE (DivRem(dr, dden, dk - 1) * LimbBase) % dden

\* float("n / 10^d" written as a decimal string), 0 <= n / 10^d < 2^IntWidth
ParseFloat(n, d) ==
  IF n = 0 THEN [m |-> <<>>, e |-> 0]
  ELSE LET den   == Pow(10, d)
           ip    == n \div den
           rem   == [k \in 0..FracLimbs |-> DivRem(n % den, den, k)]
           limb  == [k \in 1..FracLimbs |-> (rem[k - 1] * LimbBase) \div den]
           nfrac == FracLimbs * LimbBits
           all   == [q \in 1..(IntWidth + nfrac) |->
                       IF q <= IntWidth THEN BitOf(ip, IntWidth - q)
                       ELSE LET f == q - IntWidth - 1
                            IN BitOf(limb[(f \div LimbBits) + 1],
                                     LimbBits - 1 - (f % LimbBits))]
       IN Normalize(all, 0 - nfrac, rem[FracLimbs] # 0)

\* x * k in binary64, k an integer below 2^(IntWidth - LimbBits) that is itself
\* exactly a float
RECURSIVE MulCarry(_, _, _)
MulCarry(cl, ck, ci) ==
  IF ci = 0 THEN 0 ELSE (cl[ci - 1] * ck + MulCarry(cl, ck, ci - 1)) \div LimbBase

FloatMulInt(fx, fk) ==
  IF fx.m = <<>> \/ fk = 0 THEN [m |-> <<>>, e |-> 0]
  ELSE LET nl    == (MantissaBits + LimbBits - 1) \div LimbBits
           \* limb i of the significand, limb 0 the least significant
           limb  == [i \in 0..(nl - 1) |->
                       LET hi == MantissaBits - i * LimbBits
                           lo == IF hi > LimbBits THEN hi - LimbBits ELSE 0
                       IN BitsVal(SubSeq(fx.m, lo + 1, hi), hi - lo)]
           carry == [i \in 0..nl |-> MulCarry(limb, fk, i)]
           digit == [i \in 0..(nl - 1) |-> (limb[i] * fk + carry[i]) % LimbBase]
           width == nl * LimbBits + IntWidth
           prod  == [q \in 1..width |->
                       LET pos == width - q
                       IN IF pos >= nl * LimbBits
                            THEN BitOf(carry[nl], pos - nl * LimbBits)
                            ELSE BitOf(digit[pos \div LimbBits], pos % LimbBits)]
       IN Normalize(prod, fx.e, FALSE)

\* int(x), 0 <= x < 2^IntWidth: the integer part
FloatToInt(ix) ==
  IF ix.m = <<>> THEN 0
  ELSE IF ix.e >= 0 THEN BitsVal(ix.m, Len(ix.m)) * Pow(2, ix.e)
  ELSE IF Len(ix.m) + ix.e <= 0 THEN 0
  ELSE BitsVal(ix.m, Len(ix.m) + ix.e)

\* send.py:109 and bridge.py:215: amount_raw = int(amount * (10 ** decimals)),
\* amount the float parsed from n / 10^d
amount_raw_of(amount, decimals) ==
  FloatToInt(FloatMulInt(ParseFloat(amount[1], amount[2]), Pow(10, decimals)))

(***************************************************************************)
(* Strings that the code takes apart are sequences of one-character        *)
(* strings.  HexBytes.hex() writes two lower-case digits per byte, without *)
(* a prefix; bytes.fromhex reads them back, skips ASCII whitespace between *)
(* two bytes, and raises ValueError on a character that is no hexadecimal  *)
(* digit or on a digit without its pair.                                   *)
(***************************************************************************)
HexDigits == <<"0", "1", "2", "3", "4", "5", "6", "7",
               "8", "9", "a", "b", "c", "d", "e", "f">>

RECURSIVE Hex(_)
Hex(hb) ==
  IF hb = <<>> THEN ""
  ELSE HexDigits[(Head(hb) \div 16) + 1] \o HexDigits[(Head(hb) % 16) + 1] \o Hex(Tail(hb))

IsHexChar(c) == \E v \in 1..16 : HexDigits[v] = c \/ c \in {"A", "B", "C", "D", "E", "F"}

HexVal(c) ==
  CASE c = "A" -> 10 [] c = "B" -> 11 [] c = "C" -> 12
    [] c = "D" -> 13 [] c = "E" -> 14 [] c = "F" -> 15
    [] OTHER -> (CHOOSE v \in 1..16 : HexDigits[v] = c) - 1

\* the vertical tab, character 11
VerticalTab == ""
\* the ASCII whitespace bytes.fromhex skips
IsSpace(c) == c \in {" ", "\t", "\n", "\r", "\f", VerticalTab}

\* the characters of chars that are no whitespace, in order
HexChars(chars) ==
  LET NotSpace(c) == ~IsSpace(c) IN SelectSeq(chars, NotSpace)

\* the number of characters before position q that are no whitespace
CharsBefore(chars, q) == Cardinality({r \in 1..(q - 1) : ~IsSpace(chars[r])})

\* bytes.fromhex(chars) is defined (does not raise): every byte is two
\* hexadecimal digits next to each other
FromHexOk(chars) ==
  /\ Len(HexChars(chars)) % 2 = 0
  /\ \A q \in 1..Len(chars) :
       IF IsSpace(chars[q]) THEN CharsBefore(chars, q) % 2 = 0
       ELSE IsHexChar(chars[q])

\* what stands for the value of a call that raises ValueError
ValueError == [raises |-> "ValueError"]

\* bytes.fromhex(chars)
FromHex(chars) ==
  LET d == HexChars(chars)
  IN  IF FromHexOk(chars)
        THEN [q \in 1..(Len(d) \div 2) |-> 16 * HexVal(d[2 * q - 1]) + HexVal(d[2 * q])]
        ELSE ValueError

\* s[2:]
DropPrefix(chars) == SubSeq(chars, 3, Len(chars))

UpperLetters == <<"A", "B", "C", "D", "E", "F", "G", "H", "I", "J", "K", "L", "M",
                  "N", "O", "P", "Q", "R", "S", "T", "U", "V", "W", "X", "Y", "Z">>
LowerLetters == <<"a", "b", "c", "d", "e", "f", "g", "h", "i", "j", "k", "l", "m",
                  "n", "o", "p", "q", "r", "s", "t", "u", "v", "w", "x", "y", "z">>
\* str.lower() of one ASCII character
LowerChar(c) ==
  IF \E q \in 1..26 : UpperLetters[q] = c
    THEN LowerLetters[CHOOSE q \in 1..26 : UpperLetters[q] = c]
    ELSE c
\* str.upper() of one ASCII character
UpperChar(c) ==
  IF \E q \in 1..26 : LowerLetters[q] = c
    THEN UpperLetters[CHOOSE q \in 1..26 : LowerLetters[q] = c]
    ELSE c
\* str.lower()
Lower(str) == [i \in DOMAIN str |-> LowerChar(str[i])]

(***************************************************************************)
(* Web3.to_checksum_address (send.py:115).  Keccak-256 of a message        *)
(* shorter than one block, on a state of 1600 bits: bit z of lane (lx, ly) *)
(* is at position 64 * (5 * ly + lx) + z + 1.                              *)
(***************************************************************************)
LaneBits == 64
StateBits == 1600
RateBytes == 136
At(st, lx, ly, z) == st[LaneBits * (5 * ly + lx) + z + 1]
Xor(a, b) == (a + b) % 2
\* the value of a sequence, with every element computed
Eval(seq) == seq \o <<>>

\* the rotation offsets of the step rho
RhoOffsets == << <<0, 36, 3, 41, 18>>, <<1, 44, 10, 45, 2>>, <<62, 6, 43, 15, 61>>,
                <<28, 55, 25, 21, 56>>, <<27, 20, 39, 8, 14>> >>
\* the bits set in the round constants of the step iota
RoundConstantBits ==
  << {0}, {1, 7, 15}, {1, 3, 7, 15, 63}, {15, 31, 63}, {0, 1, 3, 7, 15},
     {0, 31}, {0, 7, 15, 31, 63}, {0, 3, 15, 63}, {1, 3, 7}, {3, 7},
     {0, 3, 15, 31}, {1, 3, 31}, {0, 1, 3, 7, 15, 31}, {0, 1, 3, 7, 63},
     {0, 3, 7, 15, 63}, {0, 1, 15, 63}, {1, 15, 63}, {7, 63}, {1, 3, 15},
     {1, 3, 31, 63}, {0, 7, 15, 31, 63}, {7, 15, 63}, {0, 31}, {3, 15, 31, 63} >>

Round(st, r) ==
  LET C == Eval([k \in 1..(5 * LaneBits) |->
                  LET lx == (k - 1) \div LaneBits
                      z  == (k - 1) % LaneBits
                  IN  (At(st, lx, 0, z) + At(st, lx, 1, z) + At(st, lx, 2, z)
                         + At(st, lx, 3, z) + At(st, lx, 4, z)) % 2])
      D == Eval([k \in 1..(5 * LaneBits) |->
                  LET lx == (k - 1) \div LaneBits
                      z  == (k - 1) % LaneBits
                  IN  Xor(C[LaneBits * ((lx + 4) % 5) + z + 1],
                          C[LaneBits * ((lx + 1) % 5) + ((z + 63) % LaneBits) + 1])])
      theta == Eval([i \in 1..StateBits |->
                  LET lx == ((i - 1) \div LaneBits) % 5
                      z  == (i - 1) % LaneBits
                  IN  Xor(st[i], D[LaneBits * lx + z + 1])])
      rhopi == Eval([i \in 1..StateBits |->
                  LET tx == ((i - 1) \div LaneBits) % 5
                      ty == (i - 1) \div (5 * LaneBits)
                      z  == (i - 1) % LaneBits
                      sx == (tx + 3 * ty) % 5
                      sy == tx
                  IN  At(theta, sx, sy,
                         (z + LaneBits - RhoOffsets[sx + 1][sy + 1]) % LaneBits)])
      chi == Eval([i \in 1..StateBits |->
                  LET lx == ((i - 1) \div LaneBits) % 5
                      ly == (i - 1) \div (5 * LaneBits)
                      z  == (i - 1) % LaneBits
                  IN  Xor(rhopi[i], (1 - At(rhopi, (lx + 1) % 5, ly, z))
                                      * At(rhopi, (lx + 2) % 5, ly, z))])
  IN  Eval([i \in 1..StateBits |->
        IF i <= LaneBits /\ (i - 1) \in RoundConstantBits[r] THEN 1 - chi[i] ELSE chi[i]])

\* Keccak-f[1600]: the 24 rounds on a state of StateBits bits; the test of the
\* length has the state of a round computed before the next round starts
RECURSIVE Rounds(_, _)
Rounds(st, r) ==
  IF r > 24 \/ Len(st) # StateBits THEN st ELSE Rounds(Round(st, r), r + 1)

\* the padded block of a message of bytes shorter than the rate
PaddedByte(bytes, j) ==
  IF j <= Len(bytes) THEN bytes[j]
  ELSE (IF j = Len(bytes) + 1 THEN 1 ELSE 0) + (IF j = RateBytes THEN 128 ELSE 0)

Absorbed(bytes) ==
  Eval([i \in 1..StateBits |->
    LET j == (i - 1) \div 8 + 1
        b == (i - 1) % 8
    IN  IF j <= RateBytes THEN (PaddedByte(bytes, j) \div (2 ^ b)) % 2 ELSE 0])

\* the 64 hexadecimal digits of keccak256(bytes), as numbers
Keccak256Digits(bytes) ==
  LET st == Rounds(Absorbed(bytes), 1)
  IN  [n \in 1..64 |->
        LET first == 8 * ((n - 1) \div 2) + (IF n % 2 = 1 THEN 4 ELSE 0)
        IN  st[first + 1] + 2 * st[first + 2] + 4 * st[first + 3] + 8 * st[first + 4]]

\* ord(c) for a lower-case hexadecimal digit
Ord(c) ==
  LET v == CHOOSE q \in 1..16 : HexDigits[q] = c
  IN  IF v <= 10 THEN 47 + v ELSE 86 + v

\* Web3.to_checksum_address(chars): an address is 40 hexadecimal digits, with
\* or without the prefix 0x; the result has the prefix and the letters in the
\* case the digits of keccak256 of the lower-case digits give them (EIP-55)
HasPrefix(chars) ==
  Len(chars) >= 2 /\ chars[1] = "0" /\ chars[2] \in {"x", "X"}
Body(chars) == IF HasPrefix(chars) THEN SubSeq(chars, 3, Len(chars)) ELSE chars
IsAddress(chars) ==
  /\ Len(Body(chars)) = 40
  /\ \A q \in 1..40 : IsHexChar(Body(chars)[q])

to_checksum_address(chars) ==
  LET body   == Lower(Body(chars))
      digits == Keccak256Digits([q \in 1..40 |-> Ord(body[q])])
  IN  IF IsAddress(chars)
        THEN <<"0", "x">> \o [q \in 1..40 |->
                               IF digits[q] >= 8 THEN UpperChar(body[q]) ELSE body[q]]
        ELSE ValueError

\* chain.upper(), for the names the model uses
Upper(chain) ==
  CASE chain = "ethereum"  -> "ETHEREUM"
    [] chain = "base"      -> "BASE"
    [] chain = "polygon"   -> "POLYGON"
    [] chain = "arbitrum"  -> "ARBITRUM"
    [] chain = "avalanche" -> "AVALANCHE"
    [] chain = "optimism"  -> "OPTIMISM"
    [] chain = "solana"    -> "SOLANA"

(***************************************************************************)
(* The inputs.                                                             *)
(***************************************************************************)
\* argparse's choices for --chain, --from-chain and --to-chain
CliChains == {"ethereum", "base", "polygon", "arbitrum"}
\* chain names a direct caller of the functions may pass
ChainNames == CliChains \cup {"avalanche", "optimism", "solana"}
\* user amounts <<n, d>>, the decimal string n / 10^d: 1, 4.1, 0.000001
Amounts == {<<1, 0>>, <<41, 1>>, <<1, 6>>}
\* what decimals() of the token contract answers (USDC has 6 decimals)
DecimalsSet == {6}
\* the recipient address 0x5a5a...5a, twenty bytes
Recipient == <<"0", "x">> \o [q \in 1..40 |-> IF q % 2 = 1 THEN "5" ELSE "a"]
\* the addresses a caller passes: the recipient, and a text that is no address
RecipientList == <<Recipient, <<"0", "x", "5", "a", " ", "5", "a">> >>
Recipients == {RecipientList[q] : q \in DOMAIN RecipientList}
\* Web3.to_checksum_address of the addresses of the model, computed once
ChecksummedList ==
  Eval([q \in DOMAIN RecipientList |-> to_checksum_address(RecipientList[q])])
Checksummed(address) ==
  ChecksummedList[CHOOSE q \in DOMAIN RecipientList : RecipientList[q] = address]
\* an environment: the variables in set have a value, those in empty are set
\* to the empty string, all others are unset
EnvOf(set, empty) ==
  [name \in set \cup empty |-> IF name \in empty THEN "" ELSE "env:" \o name]
\* an environment whose variables all hold the same text
EnvText(names, text) == [name \in names |-> text]
\* the environments of a direct call; in the last one the variables hold the
\* four letters None
Envs == {EnvOf({}, {}), EnvOf({"USDC_PRIVATE_KEY"}, {}),
         EnvOf({"USDC_RPC_AVALANCHE"}, {}),
         EnvOf({"USDC_PRIVATE_KEY", "USDC_RPC_AVALANCHE"}, {}),
         EnvOf({}, {"USDC_PRIVATE_KEY"}),
         EnvOf({"USDC_PRIVATE_KEY"}, {"USDC_RPC_ETHEREUM"}),
         EnvText({"USDC_PRIVATE_KEY", "USDC_RPC_ETHEREUM"}, "None")}
\* the hash send_raw_transaction answers for each transaction
TxHash ==
  [f \in {"approve", "depositForBurn", "receiveMessage", "transfer"} |->
     CASE f = "approve"        -> <<161, 7>>
       [] f = "depositForBurn" -> <<11, 94>>
       [] f = "receiveMessage" -> <<200, 255>>
       [] f = "transfer"       -> <<58, 9>>]
\* replies of the attestation service (response.json()); "raise" stands for a
\* request or a decoding that raises
PendingReplies ==
  {[status |-> "pending_confirmations", attestation |-> <<"P">>, message |-> <<>>],
   [status |-> "absent", attestation |-> <<>>, message |-> <<>>]}
CompleteReplies ==
  {[status |-> "complete", attestation |-> <<"0", "x", "a", "7">>,
    message |-> <<"0", "x", "0", "b", "5", "E">>],
   [status |-> "complete", attestation |-> <<"0", "x", "a", "7", "1">>,
    message |-> <<"0", "x", "0", "b">>]}
\* input() answers to the mainnet confirmation prompt
ConfirmInputs ==
  {<<"y", "e", "s">>, <<"Y", "e", "S">>, <<"n", "o">>, <<"y">>,
   <<"y", "e", "s", " ">>}
\* argparse action="store_true": the flag stores True, its absence the default
StoreTrue(given, default) == IF given THEN TRUE ELSE default

DefaultMaxAttempts == 30
SleepAfterReply == 10
SleepAfterError == 5

(***************************************************************************)
(* The state of one invocation.                                            *)
(***************************************************************************)
VARIABLES
  entry,        \* the entry point invoked: a script's main or a function
  cli,          \* main: the command line, as given and parsed, and the answer to the prompt
  env,          \* the environment: the variables that are set, with their values
  args,         \* the arguments of get_balance / send_usdc / bridge_usdc
  pc,           \* the position in the code
  amount_raw,   \* send_usdc, bridge_usdc: the local amount_raw (-1: not yet set)
  submitted,    \* the calls of send_raw_transaction made so far, in order
  receipts,     \* the transactions whose receipt wait_for_transaction_receipt returned
  att_args,     \* the arguments of the running get_attestation call
  attempt,      \* get_attestation: the loop variable
  requests,     \* get_attestation: the HTTP requests issued so far
  last_sleep,   \* get_attestation: the duration of the latest time.sleep (0: none yet)
  last_outcome, \* get_attestation: how the latest iteration ended
  completed,    \* get_attestation: the reply with status "complete", once received
  att_result,   \* what get_attestation returned
  locals,       \* the locals decimals, tx_hash, burn_hash, receive_hash, once set
  result,       \* what the invoked function returned
  raised,       \* an exception left the invoked function
  out           \* main: the reporting branch taken

vars == <<entry, cli, env, args, pc, amount_raw, submitted, receipts, att_args,
          attempt, requests, last_sleep, last_outcome, completed, att_result,
          locals, result, raised, out>>

Mains == {"balance.main", "send.main", "bridge.main"}
NoValue == [none |-> TRUE]

\* os.getenv(name, default): the value of a variable that is set, also when
\* it is empty
Getenv(name, default) ==
  IF name \in DOMAIN env THEN Object(env[name]) ELSE default
\* not v, for a string or None
Falsy(v) == v = None \/ v = Object("")
\* os.getenv("USDC_RPC_<CHAIN>", default)
RpcUrl(chain, default) == Getenv("USDC_RPC_" \o Upper(chain), default)

InitLocals ==
  /\ amount_raw = -1
  /\ submitted = <<>>
  /\ receipts = {}
  /\ attempt = 0
  /\ requests = 0
  /\ last_sleep = 0
  /\ last_outcome = "none"
  /\ completed = NoValue
  /\ att_result = NoValue
  /\ locals = NoValue
  /\ result = NoValue
  /\ raised = FALSE
  /\ out = "none"

InitMain ==
  /\ entry \in Mains
  /\ pc = "main"
  /\ env \in {EnvOf({}, {}), EnvOf({"USDC_PRIVATE_KEY"}, {})}
  /\ args = NoValue
  /\ att_args = NoValue
  /\ \E chain \in CliChains, json \in BOOLEAN, to \in Recipients :
       \/ /\ entry = "balance.main"
          /\ \E testnet_flag \in BOOLEAN :
               cli = [to |-> to,
                      chain |-> chain, to_chain |-> chain, amount |-> <<0, 0>>,
                      testnet_flag |-> testnet_flag,
                      testnet |-> StoreTrue(testnet_flag, FALSE),
                      mainnet |-> FALSE, json |-> json,
                      confirm |-> <<"n", "o">>]
       \/ /\ entry \in {"send.main", "bridge.main"}
          /\ \E to_chain \in (IF entry = "bridge.main" THEN CliChains ELSE {chain}),
                amount \in Amounts, mainnet \in BOOLEAN,
                testnet_flag \in BOOLEAN :
             \E confirm \in (IF mainnet THEN ConfirmInputs ELSE {<<"n", "o">>}) :
               cli = [to |-> to,
                      chain |-> chain, to_chain |-> to_chain, amount |-> amount,
                      testnet_flag |-> testnet_flag,
                      testnet |-> StoreTrue(testnet_flag, TRUE),
                      mainnet |-> mainnet, json |-> json,
                      confirm |-> confirm]

InitCall ==
  /\ entry \in {"get_balance", "send_usdc", "bridge_usdc"}
  /\ pc = "call"
  /\ cli = NoValue
  /\ att_args = NoValue
  /\ \E chain \in ChainNames, testnet \in BOOLEAN, to \in Recipients :
       \/ /\ entry = "get_balance"
          /\ env \in {EnvOf({}, {}), EnvOf({"USDC_RPC_AVALANCHE"}, {}),
                      EnvOf({}, {"USDC_RPC_ETHEREUM"}),
                      EnvText({"USDC_RPC_ETHEREUM"}, "None")}
          /\ args = [to |-> to, amount |-> <<0, 0>>, chain |-> chain,
                     to_chain |-> chain, testnet |-> testnet, private_key |-> FALSE]
       \/ /\ entry \in {"send_usdc", "bridge_usdc"}
          /\ \E to_chain \in (IF entry = "bridge_usdc" THEN ChainNames ELSE {chain}),
                amount \in Amounts, private_key \in BOOLEAN :
               /\ env \in (IF private_key THEN {EnvOf({}, {})} ELSE Envs)
               /\ args = [to |-> to, amount |-> amount, chain |-> chain,
                          to_chain |-> to_chain, testnet |-> testnet,
                          private_key |-> private_key]

InitAttestation ==
  /\ entry = "get_attestation"
  /\ pc = "att_loop"
  /\ cli = NoValue
  /\ env = EnvOf({}, {})
  /\ args = NoValue
  /\ \E testnet \in BOOLEAN, max_attempts \in 0..MaxAttemptsBound :
       att_args = [message_hash |-> "0x" \o Hex(TxHash["depositForBurn"]),
                   testnet |-> testnet, max_attempts |-> max_attempts]

Init == InitLocals /\ (InitMain \/ InitCall \/ InitAttestation)

inputs == <<entry, cli, env>>
attv   == <<att_args, attempt, requests, last_sleep, last_outcome, completed, att_result>>
txv    == <<amount_raw, submitted, receipts, locals>>

\* the function an entry point runs
Fn == CASE entry \in {"balance.main", "get_balance"} -> "get_balance"
        [] entry \in {"send.main", "send_usdc"}      -> "send_usdc"
        [] entry \in {"bridge.main", "bridge_usdc"}  -> "bridge_usdc"
        [] OTHER                                     -> "get_attestation"

\* return r
Return(r) == result' = r /\ raised' = FALSE /\ pc' = "returned"

\* (mutant) no except clause: the exception leaves the function
Caught_Propagates(msg) == raised' = TRUE /\ result' = result /\ pc' = "returned"

\* except Exception as e: return {"error": str(e)}
Caught(msg) == Return([error |-> msg])

\* the answers of a step that talks to a node: it goes through or it raises
Outcomes == {"ok", "raise"}

\* one of the calls of a step raises inside the try
CaughtAny(calls) == \E call \in calls : Caught(call)

\* w3 = Web3(Web3.HTTPProvider(rpc_url)) and w3.is_connected()
ConnectCalls == {"HTTPProvider", "Web3", "is_connected"}
\* w3 = Web3(Web3.HTTPProvider(rpc)) of bridge_usdc, which does not ask
\* is_connected
ProviderCalls == {"HTTPProvider", "Web3"}
\* the calls between the nonce and send_raw_transaction: the gasPrice and
\* chainId entries, build_transaction and sign_transaction
BuildCalls == {"gas_price", "chain_id", "build_transaction", "sign_transaction"}

(***************************************************************************)
(* get_attestation (bridge.py:149-172).  One action per loop iteration.    *)
(***************************************************************************)
\* (mutant) one iteration too many
LoopRuns_OffByOne(n, max_attempts) == n <= max_attempts

\* for attempt in range(max_attempts): the loop body runs once more
LoopRuns(n, max_attempts) == n < max_attempts

\* (mutant) the same sleep on both paths
SleepFor_Same(outcome) == SleepAfterReply

\* the time.sleep that ends an iteration without a "complete" reply
SleepFor(outcome) == IF outcome = "raise" THEN SleepAfterError ELSE SleepAfterReply

\* (mutant) message and attestation taken from the wrong fields
AttestationSuccess_Swapped(data) ==
  [success |-> TRUE, attestation |-> data.message, message |-> data.attestation]

\* the return value for a "complete" reply
AttestationSuccess(data) ==
  [success |-> TRUE, attestation |-> data.attestation, message |-> data.message]

AttestationTimeout == [error |-> "Attestation timeout"]

\* (mutant) the value is kept but the loop goes on
AttReturn_KeepsPolling(r) == att_result' = r /\ UNCHANGED <<pc, result, raised>>

\* get_attestation returns r to its caller
AttReturn(r) ==
  /\ att_result' = r
  /\ IF entry = "get_attestation"
       THEN Return(r)
       ELSE pc' = "b_check" /\ UNCHANGED <<result, raised>>

AttIteration ==
  /\ pc = "att_loop"
  /\ LoopRuns(attempt, att_args.max_attempts)
  /\ requests' = requests + 1
  /\ \/ \E data \in CompleteReplies :
          /\ AttReturn(AttestationSuccess(data))
          /\ last_outcome' = "complete"
          /\ completed' = data
          /\ UNCHANGED <<attempt, last_sleep>>
     \/ \E data \in PendingReplies :
          /\ last_sleep' = SleepFor("reply")
          /\ last_outcome' = "reply"
          /\ attempt' = attempt + 1
          /\ UNCHANGED <<completed, att_result, result, raised, pc>>
     \/ /\ last_sleep' = SleepFor("raise")
        /\ last_outcome' = "raise"
        /\ attempt' = attempt + 1
        /\ UNCHANGED <<completed, att_result, result, raised, pc>>
  /\ UNCHANGED <<inputs, args, txv, att_args, out>>

AttExhausted ==
  /\ pc = "att_loop"
  /\ ~LoopRuns(attempt, att_args.max_attempts)
  /\ AttReturn(AttestationTimeout)
  /\ UNCHANGED <<inputs, args, txv, att_args, attempt, requests, last_sleep,
                 last_outcome, completed, out>>

(***************************************************************************)
(* bridge_usdc (bridge.py:175-306).                                        *)
(***************************************************************************)
from_key == bridge_get_chain_key(args.chain, args.testnet)
to_key   == bridge_get_chain_key(args.to_chain, args.testnet)

\* pk = private_key or os.getenv("USDC_PRIVATE_KEY") is not empty
HasPk == args.private_key \/ ~Falsy(Getenv("USDC_PRIVATE_KEY", None))

from_rpc == RpcUrl(args.chain, Get(BRIDGE_DEFAULT_RPCS, from_key))
to_rpc   == RpcUrl(args.to_chain, Get(BRIDGE_DEFAULT_RPCS, to_key))

\* all([usdc_addr, messenger_addr, dest_domain is not None])
CctpSupported(fk, tk) ==
  /\ fk \in DOMAIN BRIDGE_USDC_ADDRESSES
  /\ fk \in DOMAIN TOKEN_MESSENGER
  /\ tk \in DOMAIN DOMAIN_IDS

\* str.zfill(width): zeros on the left up to width characters, after a
\* leading sign if there is one
ZFill(chars, width) ==
  IF Len(chars) >= width THEN chars
  ELSE LET zeros == [q \in 1..(width - Len(chars)) |-> "0"]
       IN  IF chars # <<>> /\ Head(chars) \in {"+", "-"}
             THEN <<Head(chars)>> \o zeros \o Tail(chars)
             ELSE zeros \o chars

\* bytes.fromhex(address[2:].zfill(64))
address_to_bytes32(address) == FromHex(ZFill(DropPrefix(address), 64))

\* (mutant) the transaction is sent again
Submit_Twice(tx) == submitted' = Append(Append(submitted, tx), tx)

\* send_raw_transaction is called with a transaction, and answers its hash
Submit(tx) == submitted' = Append(submitted, tx)

SetLocal(name, h) ==
  locals' = [k \in (DOMAIN locals \ {"none"}) \cup {name} |->
               IF k = name THEN h ELSE locals[k]]

\* (mutant) the approve transaction's hash reported as the burn
PartialResult_ApproveHash ==
  [partial_success |-> TRUE,
   burn_tx |-> Hex(locals.tx_hash),
   error |-> att_result.error,
   note |-> "Burn successful. Attestation pending. Use status.py to complete."]

\* the partial-success value of lines 265-270
PartialResult ==
  [partial_success |-> TRUE,
   burn_tx |-> Hex(locals.burn_hash),
   error |-> att_result.error,
   note |-> "Burn successful. Attestation pending. Use status.py to complete."]

\* the value of lines 295-303
BridgeSuccess(receive_hash) ==
  [success |-> TRUE, amount |-> args.amount, from_chain |-> from_key,
   to_chain |-> to_key, recipient |-> args.to,
   burn_tx |-> Hex(locals.burn_hash), receive_tx |-> Hex(receive_hash)]

\* lines 179-188
BridgeStart ==
  /\ pc = "call" /\ Fn = "bridge_usdc"
  /\ IF ~HasPk
       THEN Return([error |-> "No private key. Set USDC_PRIVATE_KEY env var."])
       ELSE pc' = "b_connect" /\ UNCHANGED <<result, raised>>
  /\ UNCHANGED <<inputs, args, txv, attv, out>>

\* lines 190-202: the provider and Account.from_key may raise; then the
\* support check
BridgeConnect ==
  /\ pc = "b_connect"
  /\ \/ CaughtAny(ProviderCalls \cup {"from_key"})
     \/ IF ~CctpSupported(from_key, to_key)
          THEN Return([error |-> "CCTP not supported for " \o from_key \o " -> " \o to_key])
          ELSE pc' = "b_decimals" /\ UNCHANGED <<result, raised>>
  /\ UNCHANGED <<inputs, args, txv, attv, out>>

\* lines 204-215
BridgeDecimals ==
  /\ pc = "b_decimals"
  /\ \/ CaughtAny({"contract", "decimals"}) /\ UNCHANGED <<amount_raw, locals>>
     \/ \E decimals \in DecimalsSet :
          /\ SetLocal("decimals", decimals)
          /\ amount_raw' = amount_raw_of(args.amount, decimals)
          /\ pc' = "b_approve"
          /\ UNCHANGED <<result, raised>>
  /\ UNCHANGED <<inputs, args, submitted, receipts, attv, out>>

\* lines 217-231: step 1, approve
BridgeApprove ==
  /\ pc = "b_approve"
  /\ \/ /\ CaughtAny({"get_transaction_count"} \cup BuildCalls)
        /\ UNCHANGED <<submitted, locals>>
     \/ /\ Submit([fn |-> "approve", chain |-> from_key,
                   contract |-> BRIDGE_USDC_ADDRESSES[from_key],
                   params |-> <<TOKEN_MESSENGER[from_key], amount_raw>>])
        /\ \/ Caught("send_raw_transaction") /\ UNCHANGED locals
           \/ /\ SetLocal("tx_hash", TxHash["approve"])
              /\ pc' = "b_approve_wait"
              /\ UNCHANGED <<result, raised>>
  /\ UNCHANGED <<inputs, args, amount_raw, receipts, attv, out>>

\* line 232
BridgeApproveWait ==
  /\ pc = "b_approve_wait"
  /\ \/ Caught("wait_for_transaction_receipt") /\ UNCHANGED receipts
     \/ /\ receipts' = receipts \cup {"approve"}
        /\ pc' = "b_burn"
        /\ UNCHANGED <<result, raised>>
  /\ UNCHANGED <<inputs, args, amount_raw, submitted, locals, attv, out>>

\* lines 235-253: step 2, depositForBurn.  address_to_bytes32(to) comes first
\* and raises when to[2:] is no hexadecimal text.
BridgeBurn ==
  /\ pc = "b_burn"
  /\ IF address_to_bytes32(args.to) = ValueError
       THEN Caught("fromhex") /\ UNCHANGED <<submitted, locals>>
     ELSE
     \/ /\ CaughtAny({"get_transaction_count"} \cup BuildCalls)
        /\ UNCHANGED <<submitted, locals>>
     \/ /\ Submit([fn |-> "depositForBurn", chain |-> from_key,
                   contract |-> TOKEN_MESSENGER[from_key],
                   params |-> <<amount_raw, DOMAIN_IDS[to_key],
                                address_to_bytes32(args.to),
                                BRIDGE_USDC_ADDRESSES[from_key]>>])
        /\ \/ Caught("send_raw_transaction") /\ UNCHANGED locals
           \/ /\ SetLocal("burn_hash", TxHash["depositForBurn"])
              /\ pc' = "b_burn_wait"
              /\ UNCHANGED <<result, raised>>
  /\ UNCHANGED <<inputs, args, amount_raw, receipts, attv, out>>

\* lines 254-263: the burn receipt, then get_attestation(message_hash, testnet)
BridgeBurnWait ==
  /\ pc = "b_burn_wait"
  /\ \/ /\ Caught("wait_for_transaction_receipt")
        /\ UNCHANGED <<receipts, att_args>>
     \/ /\ receipts' = receipts \cup {"depositForBurn"}
        /\ att_args' = [message_hash |-> "0x" \o Hex(locals.burn_hash),
                        testnet |-> args.testnet,
                        max_attempts |-> DefaultMaxAttempts]
        /\ pc' = "att_loop"
        /\ UNCHANGED <<result, raised>>
  /\ UNCHANGED <<inputs, args, amount_raw, submitted, locals, attempt, requests,
                 last_sleep, last_outcome, completed, att_result, out>>

\* lines 264-270
BridgeCheckAttestation ==
  /\ pc = "b_check"
  /\ IF "error" \in DOMAIN att_result
       THEN Return(PartialResult)
       ELSE pc' = "b_mint" /\ UNCHANGED <<result, raised>>
  /\ UNCHANGED <<inputs, args, txv, attv, out>>

\* lines 272-292: step 4, receiveMessage.  The provider of the destination
\* may raise; to_checksum_address(None) raises when the destination has no
\* MessageTransmitter; bytes.fromhex raises on a malformed message or
\* attestation, before the transaction is built.
BridgeMint ==
  /\ pc = "b_mint"
  /\ \/ CaughtAny(ProviderCalls) /\ UNCHANGED <<submitted, locals>>
     \/ IF to_key \notin DOMAIN MESSAGE_TRANSMITTER
       THEN Caught("to_checksum_address") /\ UNCHANGED <<submitted, locals>>
       ELSE
         \/ /\ CaughtAny({"contract", "get_transaction_count"})
            /\ UNCHANGED <<submitted, locals>>
         \/ IF ~(FromHexOk(DropPrefix(att_result.message))
                   /\ FromHexOk(DropPrefix(att_result.attestation)))
              THEN Caught("fromhex") /\ UNCHANGED <<submitted, locals>>
              ELSE
                \/ CaughtAny(BuildCalls) /\ UNCHANGED <<submitted, locals>>
                \/ /\ Submit([fn |-> "receiveMessage", chain |-> to_key,
                              contract |-> MESSAGE_TRANSMITTER[to_key],
                              params |->
                                <<FromHex(DropPrefix(att_result.message)),
                                  FromHex(DropPrefix(att_result.attestation))>>])
                   /\ \/ Caught("send_raw_transaction") /\ UNCHANGED locals
                      \/ /\ SetLocal("receive_hash", TxHash["receiveMessage"])
                         /\ pc' = "b_mint_wait"
                         /\ UNCHANGED <<result, raised>>
  /\ UNCHANGED <<inputs, args, amount_raw, receipts, attv, out>>

\* lines 293-303
BridgeMintWait ==
  /\ pc = "b_mint_wait"
  /\ \/ Caught("wait_for_transaction_receipt") /\ UNCHANGED receipts
     \/ /\ receipts' = receipts \cup {"receiveMessage"}
        /\ Return(BridgeSuccess(locals.receive_hash))
  /\ UNCHANGED <<inputs, args, amount_raw, submitted, locals, attv, out>>

(***************************************************************************)
(* send_usdc (send.py:69-141) and get_explorer_url (send.py:144-155).      *)
(***************************************************************************)
get_explorer_url(chain_key, tx_hash) ==
  CASE chain_key = "ethereum"         -> "https://etherscan.io/tx/" \o tx_hash
    [] chain_key = "ethereum_sepolia" -> "https://sepolia.etherscan.io/tx/" \o tx_hash
    [] chain_key = "base"             -> "https://basescan.org/tx/" \o tx_hash
    [] chain_key = "base_sepolia"     -> "https://sepolia.basescan.org/tx/" \o tx_hash
    [] chain_key = "polygon"          -> "https://polygonscan.com/tx/" \o tx_hash
    [] chain_key = "polygon_mumbai"   -> "https://mumbai.polygonscan.com/tx/" \o tx_hash
    [] chain_key = "arbitrum"         -> "https://arbiscan.io/tx/" \o tx_hash
    [] chain_key = "arbitrum_sepolia" -> "https://sepolia.arbiscan.io/tx/" \o tx_hash
    [] OTHER                          -> ""

send_chain_key == send_get_chain_key(args.chain, args.testnet)

\* sender = account.address, the address of the private key
sender == "0x1111111111111111111111111111111111111111"

\* lines 73-89
SendStart ==
  /\ pc = "call" /\ Fn = "send_usdc"
  /\ IF ~HasPk
       THEN Return([error |-> "No private key provided. Set USDC_PRIVATE_KEY env var."])
     ELSE IF Falsy(RpcUrl(args.chain, Get(DEFAULT_RPCS, send_chain_key)))
       THEN Return([error |-> "No RPC URL for chain: " \o send_chain_key])
     ELSE IF Falsy(Get(USDC_ADDRESSES, send_chain_key))
       THEN Return([error |-> "USDC not supported on chain: " \o send_chain_key])
     ELSE pc' = "s_connect" /\ UNCHANGED <<result, raised>>
  /\ UNCHANGED <<inputs, args, txv, attv, out>>

\* lines 91-95: the provider or is_connected raises, is_connected answers
\* False, or True
SendConnect ==
  /\ pc = "s_connect"
  /\ \/ CaughtAny(ConnectCalls)
     \/ Return([error |-> "Could not connect to " \o send_chain_key \o " RPC"])
     \/ pc' = "s_decimals" /\ UNCHANGED <<result, raised>>
  /\ UNCHANGED <<inputs, args, txv, attv, out>>

\* lines 97-109
SendDecimals ==
  /\ pc = "s_decimals"
  /\ \/ /\ CaughtAny({"from_key", "contract", "decimals"})
        /\ UNCHANGED <<amount_raw, locals>>
     \/ \E decimals \in DecimalsSet :
          /\ SetLocal("decimals", decimals)
          /\ amount_raw' = amount_raw_of(args.amount, decimals)
          /\ pc' = "s_transfer"
          /\ UNCHANGED <<result, raised>>
  /\ UNCHANGED <<inputs, args, submitted, receipts, attv, out>>

\* lines 111-138.  Web3.to_checksum_address(to) raises when to is no address.
SendTransfer ==
  /\ pc = "s_transfer"
  /\ \/ Caught("get_transaction_count") /\ UNCHANGED <<submitted, locals>>
     \/ /\ Checksummed(args.to) = ValueError
        /\ Caught("to_checksum_address") /\ UNCHANGED <<submitted, locals>>
     \/ /\ Checksummed(args.to) # ValueError
        /\ CaughtAny(BuildCalls) /\ UNCHANGED <<submitted, locals>>
     \/ /\ Checksummed(args.to) # ValueError
        /\ Submit([fn |-> "transfer", chain |-> send_chain_key,
                   contract |-> USDC_ADDRESSES[send_chain_key],
                   params |-> <<Checksummed(args.to), amount_raw>>])
        /\ \/ Caught("send_raw_transaction") /\ UNCHANGED locals
           \/ /\ SetLocal("tx_hash", TxHash["transfer"])
              /\ Return([success |-> TRUE, tx_hash |-> Hex(TxHash["transfer"]),
                         from |-> sender,
                         to |-> args.to, amount |-> args.amount,
                         chain |-> send_chain_key, testnet |-> args.testnet,
                         explorer |-> get_explorer_url(send_chain_key,
                                                       Hex(TxHash["transfer"]))])
  /\ UNCHANGED <<inputs, args, amount_raw, receipts, attv, out>>

(***************************************************************************)
(* get_balance (balance.py:67-111).                                        *)
(***************************************************************************)
balance_chain_key == balance_get_chain_key(args.chain, args.testnet)

\* what balanceOf answers
BalancesRaw == {0, 1500000}

\* lines 69-80
BalanceStart ==
  /\ pc = "call" /\ Fn = "get_balance"
  /\ IF Falsy(RpcUrl(args.chain, Get(DEFAULT_RPCS, balance_chain_key)))
       THEN Return([error |-> "No RPC URL for chain: " \o balance_chain_key])
     ELSE IF Falsy(Get(USDC_ADDRESSES, balance_chain_key))
       THEN Return([error |-> "USDC not supported on chain: " \o balance_chain_key])
     ELSE pc' = "g_connect" /\ UNCHANGED <<result, raised>>
  /\ UNCHANGED <<inputs, args, txv, attv, out>>

\* lines 82-86: the provider or is_connected raises, is_connected answers
\* False, or True
BalanceConnect ==
  /\ pc = "g_connect"
  /\ \/ CaughtAny(ConnectCalls)
     \/ Return([error |-> "Could not connect to " \o balance_chain_key \o " RPC"])
     \/ pc' = "g_query" /\ UNCHANGED <<result, raised>>
  /\ UNCHANGED <<inputs, args, txv, attv, out>>

\* lines 88-108: the contract, Web3.to_checksum_address(address), which raises
\* when address is no address, balanceOf, then decimals; balance is the float
\* nearest to balance_raw / 10^decimals, kept as the quotient it is computed
\* from
BalanceQuery ==
  /\ pc = "g_query"
  /\ \/ Caught("contract")
     \/ IF Checksummed(args.to) = ValueError
          THEN Caught("to_checksum_address")
        ELSE
        \/ Caught("balanceOf")
        \/ Caught("decimals")
        \/ \E balance_raw \in BalancesRaw, decimals \in DecimalsSet :
             Return([address |-> args.to, chain |-> balance_chain_key,
                     testnet |-> args.testnet,
                     balance |-> <<balance_raw, Pow(10, decimals)>>,
                     balance_raw |-> balance_raw, decimals |-> decimals,
                     usdc_contract |-> USDC_ADDRESSES[balance_chain_key]])
  /\ UNCHANGED <<inputs, args, txv, attv, out>>

(***************************************************************************)
(* main of the three scripts (balance.py:114-139, send.py:158-195,         *)
(* bridge.py:309-358).                                                     *)
(***************************************************************************)
\* use_testnet = not args.mainnet
use_testnet == ~cli.mainnet

\* a prompt that stops the run only on an empty answer
Confirmed_AnyAnswer == use_testnet \/ cli.confirm # <<>>

\* the mainnet prompt lets the run go on
Confirmed == use_testnet \/ Lower(cli.confirm) = <<"y", "e", "s">>

Main ==
  /\ pc = "main"
  /\ \/ /\ entry = "balance.main"
        /\ args' = [to |-> cli.to, amount |-> cli.amount, chain |-> cli.chain,
                    to_chain |-> cli.to_chain, testnet |-> cli.testnet,
                    private_key |-> FALSE]
        /\ pc' = "call"
        /\ out' = out
     \/ /\ entry \in {"send.main", "bridge.main"}
        /\ IF Confirmed
             THEN /\ args' = [to |-> cli.to, amount |-> cli.amount,
                              chain |-> cli.chain, to_chain |-> cli.to_chain,
                              testnet |-> use_testnet, private_key |-> FALSE]
                  /\ pc' = "call"
                  /\ out' = out
             ELSE /\ out' = "cancelled"
                  /\ pc' = "done"
                  /\ args' = args
  /\ UNCHANGED <<inputs, txv, attv, result, raised>>

\* the branch of the report: balance.py:129-139, send.py:184-195,
\* bridge.py:343-358
ReportBranch(script, json, res) ==
  IF json THEN "json"
  ELSE IF "error" \in DOMAIN res THEN "error"
  ELSE IF script = "bridge.main" /\ "partial_success" \in DOMAIN res
          /\ res.partial_success
    THEN "partial"
  ELSE "success"

MainReport ==
  /\ pc = "returned" /\ entry \in Mains /\ ~raised
  /\ out' = ReportBranch(entry, cli.json, result)
  /\ pc' = "done"
  /\ UNCHANGED <<inputs, args, txv, attv, result, raised>>

Next ==
  \/ Main
  \/ MainReport
  \/ BalanceStart \/ BalanceConnect \/ BalanceQuery
  \/ SendStart \/ SendConnect \/ SendDecimals \/ SendTransfer
  \/ BridgeStart \/ BridgeConnect \/ BridgeDecimals
  \/ BridgeApprove \/ BridgeApproveWait \/ BridgeBurn \/ BridgeBurnWait
  \/ AttIteration \/ AttExhausted
  \/ BridgeCheckAttestation \/ BridgeMint \/ BridgeMintWait

Spec == Init /\ [][Next]_vars

\* get_attestation on its own.  The process is sequential, so the return
\* after the loop is eventually taken.  An iteration waits in requests.get,
\* which is called without a timeout (bridge.py:155): nothing in the code
\* makes it come back, and an iteration that never ends is a behaviour.
InitAtt == InitLocals /\ InitAttestation
NextAtt == AttIteration \/ AttExhausted
SpecAtt == InitAtt /\ [][NextAtt]_vars /\ WF_vars(AttExhausted)

\* every request of the poll is answered or raises
EveryRequestEnds == WF_vars(AttIteration)

(***************************************************************************)
(* The properties.                                                         *)
(***************************************************************************)
Finished == pc \in {"returned", "done"}
SubmittedFns == {submitted[i].fn : i \in DOMAIN submitted}
TimesSubmitted(f) == Cardinality({i \in DOMAIN submitted : submitted[i].fn = f})
IsTrue(rec, key) == key \in DOMAIN rec /\ rec[key] = TRUE

\* C1: get_attestation never issues more than max_attempts requests; when it
\* returns without having seen a "complete" reply it has issued exactly
\* max_attempts requests and returns {"error": "Attestation timeout"} without
\* raising; and for every sequence of replies, that is when every request is
\* answered or raises, it returns.
C1_PollTerminates ==
  /\ [](requests <= att_args.max_attempts)
  /\ []((pc = "returned" /\ last_outcome # "complete")
          => /\ requests = att_args.max_attempts
             /\ result = [error |-> "Attestation timeout"]
             /\ ~raised)
  /\ EveryRequestEnds => <>(pc = "returned")

C1_Witness ==
  /\ entry = "get_attestation" /\ pc = "returned"
  /\ att_args.max_attempts = 3 /\ requests = 3
  /\ last_outcome = "raise"
  /\ result = [error |-> "Attestation timeout"]

\* C2: when bridge_usdc has the burn receipt and the poll ended without a
\* "complete" reply, the result has partial_success = True and burn_tx the hash
\* of the burn transaction, and no receiveMessage transaction was submitted.
C2_PartialSuccessAfterBurn ==
  (Fn = "bridge_usdc" /\ Finished /\ "depositForBurn" \in receipts
     /\ "error" \in DOMAIN att_result)
    => /\ IsTrue(result, "partial_success")
       /\ "burn_tx" \in DOMAIN result
       /\ result.burn_tx = Hex(TxHash["depositForBurn"])
       /\ "receiveMessage" \notin SubmittedFns

C2_Witness ==
  /\ entry = "bridge_usdc" /\ pc = "returned"
  /\ "depositForBurn" \in receipts
  /\ requests = DefaultMaxAttempts
  /\ IsTrue(result, "partial_success")
  /\ result.burn_tx = "0b5e"

\* C3: in non-JSON mode, bridge.py's main reports a result with
\* partial_success = True through the partial-success branch, not the generic
\* error branch.
C3_PartialReportedDistinctly ==
  (entry = "bridge.main" /\ pc = "done" /\ ~cli.json /\ IsTrue(result, "partial_success"))
    => out = "partial"

\* C4: for every chain name the CLIs accept, the chain key is the chain name
\* on mainnet, a different test-network key on testnet, and the same in
\* balance.py, send.py and bridge.py.
C4_ChainKeysConsistent ==
  (args # NoValue /\ args.chain \in CliChains)
    => LET c == args.chain
           t == args.testnet
       IN /\ balance_get_chain_key(c, t) = send_get_chain_key(c, t)
          /\ send_get_chain_key(c, t) = bridge_get_chain_key(c, t)
          /\ ~t => bridge_get_chain_key(c, t) = c
          /\ t => bridge_get_chain_key(c, t) # bridge_get_chain_key(c, FALSE)

\* C5: once bridge_usdc is past its support check, from_key is in
\* USDC_ADDRESSES, TOKEN_MESSENGER and DEFAULT_RPCS, and to_key is in
\* DOMAIN_IDS, MESSAGE_TRANSMITTER and DEFAULT_RPCS.
C5_KeysInEveryTable ==
  (Fn = "bridge_usdc" /\ pc \in {"b_decimals", "b_approve", "b_approve_wait", "b_burn",
                                 "b_burn_wait", "att_loop", "b_check", "b_mint",
                                 "b_mint_wait"})
    => /\ from_key \in DOMAIN BRIDGE_USDC_ADDRESSES
       /\ from_key \in DOMAIN TOKEN_MESSENGER
       /\ from_key \in DOMAIN BRIDGE_DEFAULT_RPCS
       /\ to_key \in DOMAIN DOMAIN_IDS
       /\ to_key \in DOMAIN MESSAGE_TRANSMITTER
       /\ to_key \in DOMAIN BRIDGE_DEFAULT_RPCS

\* the function ran to its last step
Completed ==
  CASE Fn = "bridge_usdc" -> "receiveMessage" \in receipts
    [] Fn = "send_usdc"   -> "tx_hash" \in DOMAIN locals
    [] Fn = "get_balance" -> "balance_raw" \in DOMAIN result
    [] OTHER              -> FALSE

\* C6: get_balance, send_usdc and bridge_usdc never let an exception out; when
\* they return without having completed, the result has an "error" key.
C6_ErrorsAreReturned ==
  /\ ~raised
  /\ (Fn # "get_attestation" /\ Finished /\ out # "cancelled" /\ ~Completed)
       => "error" \in DOMAIN result

C6_Witness ==
  /\ entry = "bridge_usdc" /\ pc = "returned"
  /\ "receiveMessage" \in SubmittedFns /\ "receiveMessage" \notin receipts
  /\ result = [error |-> "wait_for_transaction_receipt"]

\* C7: approve, depositForBurn, receiveMessage and transfer are each submitted
\* at most once in an invocation.
C7_NoResubmission ==
  \A f \in {"approve", "depositForBurn", "receiveMessage", "transfer"} :
    TimesSubmitted(f) <= 1

C7_Witness ==
  /\ entry = "bridge_usdc" /\ pc = "returned"
  /\ TimesSubmitted("approve") = 1 /\ TimesSubmitted("depositForBurn") = 1
  /\ TimesSubmitted("receiveMessage") = 1
  /\ "error" \in DOMAIN result
  /\ requests > 1

\* C8: for a user amount n / 10^d with d <= decimals, the raw amount passed to
\* transfer and to approve is exactly n * 10^(decimals - d), and depositForBurn
\* gets the same raw amount as approve.
C8_ExactScaling ==
  \A i \in DOMAIN submitted :
    LET tx == submitted[i]
        n  == args.amount[1]
        d  == args.amount[2]
    IN /\ (tx.fn \in {"approve", "transfer"} /\ d <= locals.decimals)
            => tx.params[2] * Pow(10, d) = n * Pow(10, locals.decimals)
       /\ tx.fn = "depositForBurn"
            => \E j \in DOMAIN submitted :
                 submitted[j].fn = "approve" /\ submitted[j].params[2] = tx.params[1]

\* C9 (as stated): any two consecutive sleeps of the poll have the same duration.
C9_OneFixedInterval ==
  [][(last_sleep # 0 /\ last_sleep' # 0) => last_sleep' = last_sleep]_vars

\* C9 (amended): the poll sleeps 10 seconds after a reply that is not
\* "complete" and 5 seconds after an exception, whatever the attempt.
C9_IntervalByOutcome ==
  /\ last_outcome = "reply" => last_sleep = 10
  /\ last_outcome = "raise" => last_sleep = 5
  /\ last_outcome = "none" => last_sleep = 0

C9_Witness ==
  /\ pc = "att_loop" /\ attempt = 2 /\ requests = 2
  /\ last_outcome = "raise" /\ last_sleep = 5

\* C10: bridge_usdc submits depositForBurn only after the approve receipt,
\* polls only after the burn receipt, submits receiveMessage only after a
\* "complete" reply and with the message and attestation of that reply, and
\* returns success = True only after the receiveMessage receipt.
C10_StepsInOrder ==
  Fn = "bridge_usdc" =>
    /\ "depositForBurn" \in SubmittedFns => "approve" \in receipts
    /\ requests > 0 => "depositForBurn" \in receipts
    /\ \A i \in DOMAIN submitted :
         submitted[i].fn = "receiveMessage"
           => /\ "status" \in DOMAIN completed
              /\ completed.status = "complete"
              /\ submitted[i].params = <<FromHex(DropPrefix(completed.message)),
                                         FromHex(DropPrefix(completed.attestation))>>
    /\ IsTrue(result, "success") => "receiveMessage" \in receipts

C10_Witness ==
  /\ entry = "bridge_usdc" /\ pc = "returned"
  /\ IsTrue(result, "success")
  /\ submitted[3].params = <<<<11, 94>>, <<167>>>>
  /\ requests > 1

\* the spellings of "yes" in upper and lower case letters
CaseVariantsOfYes ==
  {<<a, b, c>> : a \in {"y", "Y"}, b \in {"e", "E"}, c \in {"s", "S"}}

\* C11: main of send.py and bridge.py calls send_usdc / bridge_usdc with
\* testnet = True exactly when --mainnet is absent, whether or not --testnet
\* was given; with --mainnet and an answer to the prompt that is not "yes" in
\* some mix of cases, the function is never called and nothing is submitted.
C11_TestnetUnlessConfirmedMainnet ==
  entry \in {"send.main", "bridge.main"} =>
    /\ args # NoValue => args.testnet = ~cli.mainnet
    /\ (cli.mainnet /\ cli.confirm \notin CaseVariantsOfYes)
         => /\ args = NoValue
            /\ submitted = <<>>
            /\ result = NoValue
            /\ pc \in {"main", "done"}

C11_Witness ==
  /\ entry = "bridge.main" /\ cli.mainnet /\ cli.testnet_flag
  /\ cli.confirm = <<"Y", "e", "S">>
  /\ "depositForBurn" \in SubmittedFns
  /\ ~args.testnet

\* C12: get_attestation returns at the first "complete" reply, with
\* success = True and the attestation and message of that reply, and sends no
\* request after it; an iteration that raised has used up one attempt like
\* any other, and no exception leaves get_attestation.
C12_StopsAtFirstComplete ==
  att_args # NoValue =>
    /\ (entry = "get_attestation" \/ pc = "att_loop") => ~raised
    /\ last_outcome = "complete"
         => /\ att_result = [success |-> TRUE,
                             attestation |-> completed.attestation,
                             message |-> completed.message]
            /\ pc # "att_loop"
            /\ requests = attempt + 1
    /\ last_outcome # "complete"
         => /\ completed = NoValue
            /\ requests = attempt
            /\ att_result \in {NoValue, AttestationTimeout}
    /\ last_outcome = "raise"
         => attempt >= 1 /\ attempt <= att_args.max_attempts

C12_Witness ==
  /\ last_outcome = "complete" /\ last_sleep = SleepAfterError
  /\ requests = 3 /\ attempt = 2
  /\ att_result.success
  /\ att_result.message = completed.message

\* C13: once bridge_usdc has the hash of the burn transaction it submitted,
\* every value it returns has that hash in burn_tx: on success, on attestation
\* timeout, and when a later step of the bridge fails.
C13_BurnTxInEveryResult ==
  (Fn = "bridge_usdc" /\ Finished /\ ~raised /\ "burn_hash" \in DOMAIN locals)
    => /\ "burn_tx" \in DOMAIN result
       /\ result.burn_tx = Hex(locals.burn_hash)

====
